---- MODULE Spec2Model ----
(***************************************************************************)
(* Model of the GAITS connector: the Excel transform script                *)
(* (scripts/transform_excel.py) and the mock GAITS service                 *)
(* (docker/mock_gaits/app.py).                                             *)
(*                                                                         *)
(* Text is modelled as a sequence of tokens.  A token is either one of the *)
(* characters the code inspects (a blank, ",", ";", "|") or a run of other *)
(* characters that the code never looks inside ("and", "AND", "P1", ...).  *)
(* A Python value is a record [kind, s]: kind "str" with its tokens s,     *)
(* kind "float" for the NaN pandas puts in an empty cell, kind "None".     *)
(***************************************************************************)
EXTENDS Integers, Sequences, FiniteSets, TLC

VARIABLES
    cfg, df_raw, pc, idx, rows, csv, printed, exc, exit_code,  \* transform_excel.py main/transform;
                                                              \* printed: the line written to stdout or stderr
    fn, cell, result,                                         \* one call of a helper function
    row_a, row_b, hashed,                                     \* two calls of _hash_row
    master, request, response                                 \* mock GAITS service

pipeVars  == <<cfg, df_raw, pc, idx, rows, csv, printed, exc, exit_code>>
fnVars    == <<fn, cell, result>>
hashVars  == <<row_a, row_b, hashed>>
mockVars  == <<master, request, response>>
vars      == <<pipeVars, fnVars, hashVars, mockVars>>

----------------------------------------------------------------------------
(* Python values                                                           *)

Str(s) == [kind |-> "str", s |-> s]
NaN    == [kind |-> "float", s |-> <<>>]
None   == [kind |-> "None", s |-> <<>>]

\* pd.isna(x): true of None and of the float NaN, false of every str
IsNa(v) == v.kind \in {"float", "None"}

\* str(x)
PyStr(v) == IF v.kind = "str" THEN v.s
            ELSE IF v.kind = "float" THEN <<"nan">> ELSE <<"None">>

IsSpace(c) == c = " "

\* str.strip()
Strip(s) ==
    LET keep == {i \in 1..Len(s) : ~IsSpace(s[i])}
        lo   == CHOOSE i \in keep : \A j \in keep : i <= j
        hi   == CHOOSE i \in keep : \A j \in keep : j <= i
    IN  IF keep = {} THEN <<>> ELSE SubSeq(s, lo, hi)

\* the outcome of a call: a returned value or a raised exception
Return(v)        == [ok |-> TRUE,  val |-> v,    type |-> "",  msg |-> <<>>]
Raise(type, msg) == [ok |-> FALSE, val |-> None, type |-> type, msg |-> msg]

----------------------------------------------------------------------------
(* normalize_status                                                        *)

StatusEnum == {"Planning", "Construction", "InDesign", "Completed", "OnHold"}

StatusMapping ==
    ( <<"Planning">>            :> "Planning"     ) @@
    ( <<"In", " ", "Progress">> :> "Construction" ) @@
    ( <<"InDesign">>            :> "InDesign"     ) @@
    ( <<"Construction">>        :> "Construction" ) @@
    ( <<"Completed">>           :> "Completed"    ) @@
    ( <<"On", " ", "Hold">>     :> "OnHold"       ) @@
    ( <<"OnHold">>              :> "OnHold"       )

\* raw.strip() exists only on a str; mapping.get(raw_clean, "Planning")
normalize_status(raw) ==
    IF raw.kind # "str"
    THEN Raise("AttributeError", <<"'float' object has no attribute 'strip'">>)
    ELSE LET raw_clean == Strip(raw.s)
         IN  IF raw_clean \in DOMAIN StatusMapping
             THEN Return(Str(<<StatusMapping[raw_clean]>>))
             ELSE Return(Str(<<"Planning">>))

----------------------------------------------------------------------------
(* parse_datetime                                                          *)

\* dateutil.parser.parse(text, fuzzy=True) on the texts the model uses:
\* the date and time it reads, or "ParserError"
OctText   == <<"Oct", " ", "14", ",", " ", "2025", " ", "10:04", " ", "AM">>
IsoText   == <<"2025-01-02T00:00:00Z">>
NoDateText == <<"not", " ", "a", " ", "date">>

DateTexts == {OctText, IsoText}

DtParse(text) ==
    IF text = OctText THEN [found |-> TRUE, date |-> "2025-10-14", time |-> "10:04:00"]
    ELSE IF text = IsoText THEN [found |-> TRUE, date |-> "2025-01-02", time |-> "00:00:00"]
    ELSE [found |-> FALSE, date |-> "", time |-> ""]

\* `from datetime import datetime` binds the name datetime to the class
\* datetime.datetime, which has no attribute `timezone`
DatetimeNameHasTimezone == FALSE

\* dt.replace(tzinfo=utc).isoformat().replace("+00:00", "Z")
IsoFormatZ(dt) == <<dt.date, "T", dt.time, "Z">>

ParseErrorMsg(c, cause) ==
    <<"Could not parse date '">> \o PyStr(c) \o <<"': ", cause>>

\* a parse_datetime whose except clause returns None instead of raising
parse_datetime_swallow(c) ==
    IF IsNa(c) THEN Return(None)
    ELSE LET dt == DtParse(PyStr(c))
         IN  IF ~dt.found \/ ~DatetimeNameHasTimezone
             THEN Return(None)
             ELSE Return(Str(IsoFormatZ(dt)))

parse_datetime(c) ==
    IF IsNa(c) THEN Return(None)
    ELSE LET dt == DtParse(PyStr(c))
         IN  IF ~dt.found
             THEN Raise("ValueError", ParseErrorMsg(c, "ParserError"))
             ELSE IF ~DatetimeNameHasTimezone
             THEN Raise("ValueError", ParseErrorMsg(c, "AttributeError"))
             ELSE Return(Str(IsoFormatZ(dt)))

----------------------------------------------------------------------------
(* collapse_owners                                                         *)

\* first index >= i of s that holds no blank (Len(s)+1 when there is none)
RECURSIVE SkipSpaces(_, _)
SkipSpaces(s, i) ==
    IF i <= Len(s) /\ IsSpace(s[i]) THEN SkipSpaces(s, i + 1) ELSE i

\* re.sub(r"\s+and\s+", ",", s) from index i on: leftmost matches, greedy,
\* not overlapping; the pattern carries no IGNORECASE flag
RECURSIVE ReplaceAndFrom(_, _)
ReplaceAndFrom(s, i) ==
    IF i > Len(s) THEN <<>>
    ELSE LET j == SkipSpaces(s, i)
         IN  IF /\ IsSpace(s[i])
                /\ j + 1 <= Len(s)
                /\ s[j] = "and"
                /\ IsSpace(s[j + 1])
             THEN <<",">> \o ReplaceAndFrom(s, SkipSpaces(s, j + 1))
             ELSE <<s[i]>> \o ReplaceAndFrom(s, i + 1)

\* re.sub(r"[;|]", ",", s)
ReplaceSemiPipe(s) ==
    [i \in 1..Len(s) |-> IF s[i] \in {";", "|"} THEN "," ELSE s[i]]

\* s.split(","): the list of the texts between the commas
RECURSIVE SplitComma(_)
SplitComma(s) ==
    LET commas == {i \in 1..Len(s) : s[i] = ","}
        first  == CHOOSE i \in commas : \A j \in commas : i <= j
    IN  IF commas = {} THEN <<s>>
        ELSE <<SubSeq(s, 1, first - 1)>> \o SplitComma(SubSeq(s, first + 1, Len(s)))

\* the loop over parts: keep p when it is not empty and not yet seen
RECURSIVE CleanParts(_, _)
CleanParts(parts, seen) ==
    IF parts = <<>> THEN <<>>
    ELSE LET p == Head(parts)
         IN  IF p # <<>> /\ p \notin seen
             THEN <<p>> \o CleanParts(Tail(parts), seen \cup {p})
             ELSE CleanParts(Tail(parts), seen)

\* ", ".join(cleaned)
RECURSIVE JoinCommaSpace(_)
JoinCommaSpace(parts) ==
    IF parts = <<>> THEN <<>>
    ELSE IF Len(parts) = 1 THEN Head(parts)
    ELSE Head(parts) \o <<",", " ">> \o JoinCommaSpace(Tail(parts))

OwnerParts(c) ==
    LET split == SplitComma(ReplaceSemiPipe(ReplaceAndFrom(PyStr(c), 1)))
    IN  [i \in 1..Len(split) |-> Strip(split[i])]

\* the same function with the de-duplication left out
collapse_owners_keep_duplicates(c) ==
    IF IsNa(c) THEN Return(Str(<<>>))
    ELSE Return(Str(JoinCommaSpace(SelectSeq(OwnerParts(c), LAMBDA p : p # <<>>))))

collapse_owners(c) ==
    IF IsNa(c) THEN Return(Str(<<>>))
    ELSE Return(Str(JoinCommaSpace(CleanParts(OwnerParts(c), {}))))

----------------------------------------------------------------------------
(* One call of a helper on one cell                                        *)

MaxPieces == 4

Pieces == { <<"A">>, <<"B">>, <<" ">>, <<",">>, <<";">>, <<"|">>,
            <<" ", "and", " ">>, <<" ", "AND", " ">>, <<"and">> }

RECURSIVE Concat(_)
Concat(ps) == IF ps = <<>> THEN <<>> ELSE Head(ps) \o Concat(Tail(ps))

PieceTexts == { Concat(ps) : ps \in UNION { [1..n -> Pieces] : n \in 0..MaxPieces } }

AliceText == <<"Alice", " ", "and", " ", "Bob", ";", " ", "Alice", ",", " ", "Carol">>

StatusTexts == { <<"Planning">>, <<"In", " ", "Progress">>, <<"InDesign">>,
                 <<"Construction">>, <<"Completed">>, <<"On", " ", "Hold">>,
                 <<"OnHold">>, <<" ", "Completed", " ">>, <<"completed">>,
                 <<"Done">> }

Cells == {NaN} \cup { Str(t) : t \in PieceTexts \cup StatusTexts \cup DateTexts
                                      \cup {AliceText, NoDateText} }

InitPipeIdle ==
    /\ cfg = <<>> /\ df_raw = <<>> /\ pc = "idle" /\ idx = 0 /\ rows = <<>>
    /\ csv = None /\ printed = <<>> /\ exc = Return(None) /\ exit_code = 0
InitFnIdle   == fn = "" /\ cell = NaN /\ result = Return(None)
InitHashIdle == row_a = <<>> /\ row_b = <<>> /\ hashed = <<>>
InitMockIdle == master = <<>> /\ request = <<>> /\ response = <<>>

InitFn ==
    /\ cell \in Cells
    /\ fn = ""
    /\ result = Return(None)
    /\ InitPipeIdle /\ InitHashIdle /\ InitMockIdle

CallNormalizeStatus ==
    /\ fn = ""
    /\ fn' = "normalize_status"
    /\ result' = normalize_status(cell)
    /\ UNCHANGED <<cell, pipeVars, hashVars, mockVars>>

\* the date parser is tabulated for the date texts only
CallParseDatetime ==
    /\ fn = ""
    /\ IsNa(cell) \/ cell.s \in DateTexts \cup {NoDateText}
    /\ fn' = "parse_datetime"
    /\ result' = parse_datetime(cell)
    /\ UNCHANGED <<cell, pipeVars, hashVars, mockVars>>

CallCollapseOwners ==
    /\ fn = ""
    /\ fn' = "collapse_owners"
    /\ result' = collapse_owners(cell)
    /\ UNCHANGED <<cell, pipeVars, hashVars, mockVars>>

NextFn == CallNormalizeStatus \/ CallParseDatetime \/ CallCollapseOwners

SpecFn == InitFn /\ [][NextFn]_vars

----------------------------------------------------------------------------
(* Claims about the helper functions, checked under SpecFn                 *)

Range(s) == {s[i] : i \in 1..Len(s)}

\* the owners named in a joined text "p1, p2, ..."
OwnerList(r) ==
    LET sp == SplitComma(r)
    IN  IF r = <<>> THEN <<>>
        ELSE [i \in 1..Len(sp) |-> IF i > 1 /\ sp[i] # <<>> THEN Tail(sp[i]) ELSE sp[i]]

\* every comma of r is followed by exactly the blank that ", " puts there
WellJoined(r) ==
    \A k \in 1..Len(r) : r[k] = "," => k < Len(r) /\ r[k + 1] = " "

IsSubText(p, s) ==
    \E k \in 0..(Len(s) - Len(p)) : SubSeq(s, k + 1, k + Len(p)) = p

\* a word of the set ws stands between blanks somewhere in the text r
HasSpacedWord(r, ws) ==
    \E k \in 2..(Len(r) - 1) : r[k] \in ws /\ IsSpace(r[k - 1]) /\ IsSpace(r[k + 1])

\* the index at which p first stands in the list ps
FirstSeen(p, ps) ==
    CHOOSE i \in 1..Len(ps) : ps[i] = p /\ \A j \in 1..(i - 1) : ps[j] # p

OwnersResultOk(andWords) ==
    /\ result.ok
    /\ result.val.kind = "str"
    /\ IsNa(cell) => result.val.s = <<>>
    /\ LET r     == result.val.s
           parts == OwnerList(r)
       IN  /\ WellJoined(r)
           /\ \A i \in 1..Len(parts) : parts[i] # <<>> /\ Strip(parts[i]) = parts[i]
           /\ \A i, j \in 1..Len(parts) : i # j => parts[i] # parts[j]
           /\ \A k \in 1..Len(r) : r[k] \notin {";", "|"}
           /\ \A i \in 1..Len(parts) : ~HasSpacedWord(parts[i], andWords)
           /\ ~IsNa(cell) =>
                /\ Range(parts) = Range(OwnerParts(cell)) \ {<<>>}
                /\ \A i, j \in 1..Len(parts) :
                      i < j => FirstSeen(parts[i], OwnerParts(cell))
                                 < FirstSeen(parts[j], OwnerParts(cell))
                /\ \A i \in 1..Len(parts) : IsSubText(parts[i], cell.s)
                /\ \A t \in Range(cell.s) :
                      t \notin {" ", ",", ";", "|", "and"} => t \in Range(r)
    /\ cell = Str(AliceText) =>
          result.val.s = <<"Alice", ",", " ", "Bob", ",", " ", "Carol">>

\* C7 as stated: collapse_owners returns "" for an absent value and otherwise
\* splits on comma, semicolon, pipe and the whitespace-surrounded word "and"
\* in ANY letter case, trims, drops empty parts and joins the distinct parts
\* in first-seen order with ", ".
C7_SplitsOnAndAnyCase ==
    fn = "collapse_owners" => OwnersResultOk({"and", "AND"})

\* C7 amended: the same, with only the lower-case word "and" between blanks
\* as a delimiter; the result holds no duplicate, no empty part, no ";" or
\* "|" and no part with a lower-case "and" between blanks; its parts are the
\* trimmed non-empty pieces of the split, each once, in the order in which
\* they are first seen, and the input loses none of its other words.
C7_CollapseOwners ==
    fn = "collapse_owners" => OwnersResultOk({"and"})

C7_Witness ==
    /\ fn = "collapse_owners"
    /\ cell = Str(AliceText)
    /\ result.val.s = <<"Alice", ",", " ", "Bob", ",", " ", "Carol">>

\* C5: parse_datetime returns null for an absent cell, the ISO-8601 text
\* ending in "Z" of the parsed instant for a text that reads as a date
\* ("Oct 14, 2025 10:04 AM" gives 2025-10-14T10:04:00Z), and raises only for
\* a text that does not read as a date at all.
C5_ParseDatetimeOutcomes ==
    fn = "parse_datetime" =>
        /\ IsNa(cell) => result = Return(None)
        /\ cell = Str(OctText) =>
              result = Return(Str(<<"2025-10-14", "T", "10:04:00", "Z">>))
        /\ (~IsNa(cell) /\ DtParse(cell.s).found) =>
              /\ result.ok
              /\ result.val.kind = "str"
              /\ result.val.s[Len(result.val.s)] = "Z"
        /\ ~result.ok => (~IsNa(cell) /\ ~DtParse(cell.s).found)

----------------------------------------------------------------------------
(* json.dumps                                                              *)

JsonValue(v) ==
    IF v.kind = "str" THEN <<"\"">> \o v.s \o <<"\"">>
    ELSE IF v.kind = "float" THEN <<"NaN">> ELSE <<"null">>

RECURSIVE JsonItems(_, _)
JsonItems(keys, d) ==
    IF keys = <<>> THEN <<>>
    ELSE <<"\"", Head(keys), "\"", ":", " ">> \o JsonValue(d[Head(keys)])
         \o (IF Len(keys) > 1 THEN <<",", " ">> ELSE <<>>)
         \o JsonItems(Tail(keys), d)

\* json.dumps(d) with the keys of d taken in the order `keys`
JsonDumps(keys, d) == <<"{">> \o JsonItems(keys, d) \o <<"}">>

----------------------------------------------------------------------------
(* transform_excel.py: load_config, transform, main                        *)

NoCol == "<None>"   \* a field of the mapping set to None

DEFAULT_MAP ==
    [ ProjectID   |-> "No.",
      Name        |-> "Title",
      Status      |-> "Status",
      Owner       |-> "Project Manager",
      Budget      |-> NoCol,
      LastUpdated |-> "Latest Check-in When",
      extra       |-> << "Progress", "Is external project?",
                         "Has implementation plan?", "Latest Check-in By",
                         "Latest Check-in 145" >> ]

\* what load_config can return: the default, or the content of a YAML file,
\* which is returned as read, here with ProjectID left out or set to null
Without(f, k) == [x \in (DOMAIN f) \ {k} |-> f[x]]

load_config ==
    { DEFAULT_MAP,
      Without(DEFAULT_MAP, "ProjectID"),
      [DEFAULT_MAP EXCEPT !.ProjectID = NoCol] }

\* Series.get(key, default)
Get(raw_row, col, default) ==
    IF col \in DOMAIN raw_row THEN raw_row[col] ELSE default

KeyError(k) == Raise("KeyError", <<k>>)

\* the Owner cell alone decides the fallback when it is NaN only
owner_source_isna_only(raw_row, c) ==
    LET owner_raw == Get(raw_row, c.Owner, None)
    IN  IF IsNa(owner_raw) THEN Get(raw_row, "Project Proponent", None)
        ELSE owner_raw

\* owner_raw, with the fall back to Project Proponent
owner_source(raw_row, c) ==
    LET owner_raw == Get(raw_row, c.Owner, None)
    IN  IF IsNa(owner_raw) \/ Strip(owner_raw.s) = <<>>
        THEN Get(raw_row, "Project Proponent", None)
        ELSE owner_raw

ExtraCols(c) == IF "extra" \in DOMAIN c THEN c.extra ELSE <<>>

Skipped      == [kind |-> "skip",   rec |-> <<>>, exc |-> Return(None)]
Raised(e)    == [kind |-> "raise",  rec |-> <<>>, exc |-> e]
Produced(r)  == [kind |-> "record", rec |-> r,    exc |-> Return(None)]

\* the body of the loop over df_raw.iterrows(), for one row
Canonicalize(c, raw_row) ==
    IF "ProjectID" \notin DOMAIN c THEN Raised(KeyError("ProjectID"))
    ELSE LET pid_raw == Get(raw_row, c.ProjectID, None) IN
    IF IsNa(pid_raw) THEN Skipped
    ELSE IF "Name" \notin DOMAIN c THEN Raised(KeyError("Name"))
    ELSE IF "Status" \notin DOMAIN c THEN Raised(KeyError("Status"))
    ELSE LET status == normalize_status(Get(raw_row, c.Status, Str(<<>>))) IN
    IF ~status.ok THEN Raised(status)
    ELSE IF "Owner" \notin DOMAIN c THEN Raised(KeyError("Owner"))
    ELSE LET owner == collapse_owners(owner_source(raw_row, c)) IN
    IF "LastUpdated" \notin DOMAIN c THEN Raised(KeyError("LastUpdated"))
    ELSE LET last_updated == parse_datetime(Get(raw_row, c.LastUpdated, None)) IN
    IF ~last_updated.ok THEN Raised(last_updated)
    ELSE LET cols       == ExtraCols(c)
             extra_dict == [k \in Range(cols) |-> Get(raw_row, k, None)]
         IN  Produced(
               [ ProjectID   |-> Str(Strip(PyStr(pid_raw))),
                 Name        |-> Str(Strip(PyStr(Get(raw_row, c.Name, Str(<<>>))))),
                 Status      |-> status.val,
                 Owner       |-> owner.val,
                 Budget      |-> None,
                 LastUpdated |-> last_updated.val,
                 extra_json  |-> Str(JsonDumps(cols, extra_dict)) ])

\* DataFrame.to_csv: one line per record, NaN and None written as nothing
CsvField(v) == IF IsNa(v) THEN <<>> ELSE v.s
CsvLine(r)  == << CsvField(r.ProjectID), CsvField(r.Name), CsvField(r.Status),
                  CsvField(r.Owner), CsvField(r.Budget), CsvField(r.LastUpdated),
                  CsvField(r.extra_json) >>
ToCsv(rs)   == [written |-> TRUE, lines |-> [i \in 1..Len(rs) |-> CsvLine(rs[i])]]
NoFile      == [written |-> FALSE, lines |-> <<>>]

(* The sheets read by pd.read_excel(..., dtype=str): every row of a sheet   *)
(* has the sheet's columns; an empty cell is NaN.                          *)
MaxRows == 2

IdCells     == { NaN, Str(<<" ">>), Str(<<"P1">>) }
StatusCells == { NaN, Str(<<" ", "On", " ", "Hold", " ">>), Str(<<"Done">>) }
DateCells   == { NaN, Str(OctText), Str(NoDateText) }
OwnerCells  == { NaN, Str(<<" ">>), Str(<<"A", ";", "A">>) }
ProponentCells == { NaN, Str(<<"B", " ", "and", " ", "C">>) }

RegisterRows ==
    { ("No." :> p) @@ ("Title" :> Str(<<" ", "T">>)) @@ ("Status" :> st) @@
      ("Latest Check-in When" :> d) @@ ("Progress" :> Str(<<"50%">>)) :
        p \in IdCells, st \in StatusCells, d \in DateCells }

OwnerRows ==
    { ("No." :> Str(<<"P2">>)) @@ ("Title" :> NaN) @@
      ("Project Manager" :> o) @@ ("Project Proponent" :> pp) :
        o \in OwnerCells, pp \in ProponentCells }

ProponentRows ==
    { ("No." :> Str(<<"P3">>)) @@ ("Project Proponent" :> pp) :
        pp \in ProponentCells }

Sheets == { RegisterRows, OwnerRows, ProponentRows }

Init ==
    /\ cfg \in load_config
    /\ \E sheet \in Sheets :
          df_raw \in UNION { [1..n -> sheet] : n \in 0..MaxRows }
    /\ pc = "start"
    /\ idx = 0
    /\ rows = <<>>
    /\ csv = NoFile
    /\ printed = <<>>
    /\ exc = Return(None)
    /\ exit_code = 0
    /\ InitFnIdle /\ InitHashIdle /\ InitMockIdle

\* df_raw = pd.read_excel(...); rows = []
ReadExcel ==
    /\ pc = "start"
    /\ pc' = "loop"
    /\ UNCHANGED <<cfg, df_raw, idx, rows, csv, printed, exc, exit_code>>
    /\ UNCHANGED <<fnVars, hashVars, mockVars>>

\* one turn of the loop that ends in `continue`
SkipRow ==
    /\ pc = "loop" /\ idx < Len(df_raw)
    /\ Canonicalize(cfg, df_raw[idx + 1]).kind = "skip"
    /\ idx' = idx + 1
    /\ UNCHANGED <<cfg, df_raw, pc, rows, csv, printed, exc, exit_code>>
    /\ UNCHANGED <<fnVars, hashVars, mockVars>>

\* one turn of the loop that ends in rows.append(...)
AppendRow ==
    /\ pc = "loop" /\ idx < Len(df_raw)
    /\ Canonicalize(cfg, df_raw[idx + 1]).kind = "record"
    /\ rows' = Append(rows, Canonicalize(cfg, df_raw[idx + 1]).rec)
    /\ idx' = idx + 1
    /\ UNCHANGED <<cfg, df_raw, pc, csv, printed, exc, exit_code>>
    /\ UNCHANGED <<fnVars, hashVars, mockVars>>

\* one turn of the loop that raises: transform is left, main's except runs
RowRaises ==
    /\ pc = "loop" /\ idx < Len(df_raw)
    /\ Canonicalize(cfg, df_raw[idx + 1]).kind = "raise"
    /\ exc' = Canonicalize(cfg, df_raw[idx + 1]).exc
    /\ pc' = "except"
    /\ UNCHANGED <<cfg, df_raw, idx, rows, csv, printed, exit_code>>
    /\ UNCHANGED <<fnVars, hashVars, mockVars>>

\* after the loop: DataFrame(rows).to_csv(dst_path); print; return
WriteCsv ==
    /\ pc = "loop" /\ idx = Len(df_raw)
    /\ csv' = ToCsv(rows)
    /\ printed' = <<"Transformed", ToString(Len(rows)), "rows">>
    /\ pc' = "done"
    /\ UNCHANGED <<cfg, df_raw, idx, rows, exc, exit_code>>
    /\ UNCHANGED <<fnVars, hashVars, mockVars>>

\* except Exception as exc: print(f"Transformation failed: {exc}"); sys.exit(1)
MainExcept ==
    /\ pc = "except"
    /\ printed' = <<"Transformation failed: ">> \o exc.msg
    /\ exit_code' = 1
    /\ pc' = "exited"
    /\ UNCHANGED <<cfg, df_raw, idx, rows, csv, exc>>
    /\ UNCHANGED <<fnVars, hashVars, mockVars>>

Next == ReadExcel \/ SkipRow \/ AppendRow \/ RowRaises \/ WriteCsv \/ MainExcept

Spec == Init /\ [][Next]_vars

----------------------------------------------------------------------------
(* Claims about the transform run, checked under Spec                      *)

HasIdSource == "ProjectID" \in DOMAIN cfg

\* the cells a row holds in the configured source columns
IdCellOf(i)     == Get(df_raw[i], cfg.ProjectID, None)
StatusCellOf(i) == Get(df_raw[i], cfg.Status, Str(<<>>))
DateCellOf(i)   == Get(df_raw[i], cfg.LastUpdated, None)

BlankId(v)    == IsNa(v) \/ Strip(PyStr(v)) = <<>>
Unparsable(v) == ~IsNa(v) /\ ~DtParse(PyStr(v)).found

Aborted == pc \in {"except", "exited"}

HasBadDateRow ==
    /\ HasIdSource
    /\ \E i \in 1..Len(df_raw) : ~BlankId(IdCellOf(i)) /\ Unparsable(DateCellOf(i))

\* C1: when some row with a non-blank ProjectID holds a present but
\* unparsable LastUpdated value, the run never completes and writes no
\* canonical output, not even the records collected before that row; once it
\* has left the loop it is in the error state and exits with status 1.
C1_BadDateAbortsRun ==
    HasBadDateRow =>
        /\ pc # "done"
        /\ ~csv.written
        /\ pc \notin {"start", "loop"} => Aborted
        /\ pc = "exited" => exit_code = 1

C1_Witness ==
    /\ HasBadDateRow
    /\ pc = "exited"
    /\ exit_code = 1
    /\ Len(rows) >= 1
    /\ ~csv.written

\* C2: a row whose ProjectID source cell is absent, empty or blank after
\* trimming yields no record and never aborts the run; every emitted record
\* has a non-empty project_id.
C2_BlankIdSkipped ==
    /\ \A k \in 1..Len(rows) : rows[k].ProjectID.s # <<>>
    /\ (pc = "exited" /\ HasIdSource) => ~BlankId(IdCellOf(idx + 1))

\* C6: status normalization never aborts a row: no row with an identifier
\* ends the run in an exception normalize_status raises on its Status cell
\* (text, padded text, empty or missing), and every emitted status is in the
\* enumeration.
C6_StatusNeverFails ==
    /\ \A k \in 1..Len(rows) :
          Len(rows[k].Status.s) = 1 /\ rows[k].Status.s[1] \in StatusEnum
    /\ (Aborted /\ HasIdSource /\ ~BlankId(IdCellOf(idx + 1))) =>
          normalize_status(StatusCellOf(idx + 1)).ok

\* the mapping omits ProjectID or sets it to null
NoIdSource == ~HasIdSource \/ cfg.ProjectID = NoCol

\* C8: with a mapping that gives ProjectID no source, no row is ever
\* processed and the run never completes successfully.
C8_BadConfigRejected ==
    NoIdSource => (idx = 0 /\ pc # "done" /\ ~csv.written)

\* the run was aborted by the unparsable date of the row after row idx
DateAbort ==
    /\ Aborted
    /\ exc.type = "ValueError"
    /\ ~BlankId(IdCellOf(idx + 1))
    /\ Unparsable(DateCellOf(idx + 1))

\* C9: when the run aborts on a date that fails to parse, the error names the
\* failing row's ordinal and its raw value, and the failing row is the
\* earliest one whose date fails to parse.
C9_ErrorNamesRowAndValue ==
    DateAbort =>
        /\ IsSubText(PyStr(DateCellOf(idx + 1)), exc.msg)
        /\ \E n \in {idx, idx + 1} : ToString(n) \in Range(exc.msg)
        /\ \A i \in 1..idx :
              IsNa(IdCellOf(i)) \/ parse_datetime(DateCellOf(i)).ok

\* the rows processed so far that were not skipped
KeptRows == {i \in 1..idx : ~IsNa(IdCellOf(i))}

\* the raw row the k-th record was made from
SourceRow(k) ==
    df_raw[CHOOSE i \in KeptRows : Cardinality({j \in KeptRows : j <= i}) = k]

\* C10: the owner of every emitted record is computed from the configured
\* Owner cell when that cell is present and not blank, from the
\* "Project Proponent" cell exactly when it is absent or blank, and is ""
\* when both are absent.
C10_OwnerFallback ==
    \A k \in 1..Len(rows) :
        LET primary    == Get(SourceRow(k), cfg.Owner, None)
            fallback   == Get(SourceRow(k), "Project Proponent", None)
            hasContent == ~IsNa(primary) /\ Strip(primary.s) # <<>>
        IN  /\ hasContent  => rows[k].Owner = collapse_owners(primary).val
            /\ ~hasContent => rows[k].Owner = collapse_owners(fallback).val
            /\ (IsNa(primary) /\ IsNa(fallback)) => rows[k].Owner = Str(<<>>)

C10_Witness ==
    \E k \in 1..Len(rows) :
        /\ Get(SourceRow(k), cfg.Owner, None) = Str(<<" ">>)
        /\ Get(SourceRow(k), "Project Proponent", None) = Str(<<"B", " ", "and", " ", "C">>)
        /\ rows[k].Owner = Str(<<"B", ",", " ", "C">>)

----------------------------------------------------------------------------
(* mock_gaits/app.py: _hash_row                                            *)

(* A row (a pandas Series) is a sequence of [label, value] pairs in column *)
(* order, its labels distinct.                                             *)

\* the column labels the model uses, in the order sorted() gives them
SortedLabels == <<"LastUpdated", "Name", "extra_json">>

RowLabels(row) == {row[i].label : i \in 1..Len(row)}

\* Series.to_dict(): the mapping and the order of its keys
DictOf(row)   == [l \in RowLabels(row) |-> (CHOOSE i \in 1..Len(row) : row[i].label = l)]
ValueOf(row)  == [l \in RowLabels(row) |-> row[DictOf(row)[l]].value]
KeyOrder(row) == [i \in 1..Len(row) |-> row[i].label]

\* sorted(keys)
SortKeys(keys) == SelectSeq(SortedLabels, LAMBDA l : l \in keys)

\* hashlib.sha256(text.encode()).hexdigest(), kept symbolic: the digest of a
\* text is the term sha256(text), so equal texts have equal digests and the
\* digests of two texts differ exactly when the texts do
Sha256(text) == <<"sha256(">> \o text \o <<")">>

\* _hash_row without the drop of LastUpdated
hash_row_keep_timestamp(row) ==
    IF "LastUpdated" \notin RowLabels(row)
    THEN KeyError("LastUpdated")
    ELSE Return(Str(Sha256(JsonDumps(SortKeys(RowLabels(row)), ValueOf(row)))))

\* row.drop(labels=["LastUpdated"]) raises KeyError when the label is missing
hash_row(row) ==
    IF "LastUpdated" \notin RowLabels(row)
    THEN KeyError("LastUpdated")
    ELSE LET payload == SelectSeq(row, LAMBDA p : p.label # "LastUpdated")
         IN  Return(Str(Sha256(
                JsonDumps(SortKeys(RowLabels(payload)), ValueOf(payload)))))

MaxHashVals == 2

HashTexts == <<"x", "y", "z", "w">>
HashCells == {NaN} \cup { Str(<<HashTexts[i]>>) : i \in 1..MaxHashVals }

\* the column orders of the frames the rows are taken from
Shapes == { <<"Name", "LastUpdated", "extra_json">>,
            <<"extra_json", "LastUpdated", "Name">>,
            <<"LastUpdated", "extra_json", "Name">>,
            <<"Name", "extra_json">> }

SeriesOver(shape) ==
    { [i \in 1..Len(shape) |-> [label |-> shape[i], value |-> f[i]]] :
        f \in [1..Len(shape) -> HashCells] }

HashRows == UNION { SeriesOver(sh) : sh \in Shapes }

InitHash ==
    /\ row_a \in HashRows
    /\ row_b \in HashRows
    /\ hashed = <<>>
    /\ InitPipeIdle /\ InitFnIdle /\ InitMockIdle

\* _hash_row(row_a), then _hash_row(row_b)
HashFirst ==
    /\ hashed = <<>>
    /\ hashed' = <<hash_row(row_a)>>
    /\ UNCHANGED <<row_a, row_b, pipeVars, fnVars, mockVars>>

HashSecond ==
    /\ Len(hashed) = 1
    /\ hashed' = Append(hashed, hash_row(row_b))
    /\ UNCHANGED <<row_a, row_b, pipeVars, fnVars, mockVars>>

NextHash == HashFirst \/ HashSecond

SpecHash == InitHash /\ [][NextHash]_vars

\* the fields of a row other than LastUpdated
Content(row) ==
    [l \in RowLabels(row) \ {"LastUpdated"} |-> ValueOf(row)[l]]

BothHashed ==
    /\ Len(hashed) = 2
    /\ "LastUpdated" \in RowLabels(row_a)
    /\ "LastUpdated" \in RowLabels(row_b)

\* C3: the fingerprint depends on exactly the fields other than LastUpdated:
\* two rows with the same other fields, whatever their LastUpdated and
\* whatever the order of their columns, have equal fingerprints, and two rows
\* that differ in any other field have different hashed texts.
C3_FingerprintContent ==
    BothHashed =>
        /\ hashed[1].ok /\ hashed[2].ok
        /\ Content(row_a) = Content(row_b) => hashed[1].val = hashed[2].val
        /\ Content(row_a) # Content(row_b) => hashed[1].val # hashed[2].val

C3_Witness ==
    /\ BothHashed
    /\ Content(row_a) = Content(row_b)
    /\ ValueOf(row_a)["LastUpdated"] # ValueOf(row_b)["LastUpdated"]
    /\ KeyOrder(row_a) # KeyOrder(row_b)
    /\ hashed[1].val = hashed[2].val

----------------------------------------------------------------------------
(* mock_gaits/app.py: list_projects, delta_projects                        *)

MOCK_KEY == "MOCK_KEY"

\* the timestamp texts of the model and what pd.to_datetime reads in them:
\* seconds after 2025-01-01T00:00:00 and whether the value carries a zone
T_Before == <<"2024-12-31T23:59:59Z">>
T_Since  == <<"2025-01-01T00:00:00Z">>
T_After  == <<"2025-01-02T00:00:00Z">>
T_Naive  == <<"2025-01-01">>
T_Bad    == <<"not", " ", "a", " ", "date">>

NaT == [ok |-> TRUE, nat |-> TRUE, t |-> 0, tz |-> "naive"]
Timestamp(t, tz) == [ok |-> TRUE, nat |-> FALSE, t |-> t, tz |-> tz]
DateParseError   == [ok |-> FALSE, nat |-> FALSE, t |-> 0, tz |-> "naive"]

\* pd.to_datetime of one value
to_datetime(v) ==
    IF IsNa(v) THEN NaT
    ELSE IF v.s = T_Before THEN Timestamp(0 - 1, "UTC")
    ELSE IF v.s = T_Since  THEN Timestamp(0, "UTC")
    ELSE IF v.s = T_After  THEN Timestamp(86400, "UTC")
    ELSE IF v.s = T_Naive  THEN Timestamp(0, "naive")
    ELSE DateParseError

\* the dtype of pd.to_datetime(column): zone-aware when a value carries a
\* zone, datetime64[ns] without zone otherwise (also when all is NaT)
ColumnTz(col) ==
    IF \E i \in 1..Len(col) : ~col[i].nat /\ col[i].tz = "UTC" THEN "UTC" ELSE "naive"

HttpOk(body)      == [status |-> 200, body |-> body, detail |-> ""]
HttpError(code, d) == [status |-> code, body |-> <<>>, detail |-> d]

\* df[mask]: the rows whose mask is true, in their order
RECURSIVE Filter(_, _)
Filter(df, mask) ==
    IF df = <<>> THEN <<>>
    ELSE (IF Head(mask) THEN <<Head(df)>> ELSE <<>>) \o Filter(Tail(df), Tail(mask))

\* the try block raises when the column is missing (KeyError), when a value
\* of the column or `since` does not parse, and when a zone-aware and a
\* zone-naive side are compared (TypeError); a comparison with NaT is False
delta_projects(df, since, api_key) ==
    IF api_key # MOCK_KEY THEN HttpError(401, "Invalid API key")
    ELSE IF \E i \in 1..Len(df) : "LastUpdated" \notin DOMAIN df[i]
    THEN HttpError(400, "Unable to parse 'since' timestamp")
    ELSE LET col == [i \in 1..Len(df) |-> to_datetime(df[i]["LastUpdated"])]
             s   == to_datetime(since)
         IN  IF \/ \E i \in 1..Len(col) : ~col[i].ok
                \/ ~s.ok
                \/ ColumnTz(col) # s.tz
             THEN HttpError(400, "Unable to parse 'since' timestamp")
             ELSE HttpOk(Filter(df, [i \in 1..Len(df) |->
                                        ~col[i].nat /\ col[i].t > s.t]))

list_projects(df, api_key) ==
    IF api_key # MOCK_KEY THEN HttpError(401, "Invalid API key")
    ELSE HttpOk(df)

MaxMaster == 2

StampCells == { NaN, Str(T_Before), Str(T_Since), Str(T_After), Str(T_Bad) }

MasterRows ==
    { ("ProjectID" :> Str(<<"P1">>)) @@ ("LastUpdated" :> v) : v \in StampCells }
UndatedRows == { ("ProjectID" :> Str(<<"P1">>)) }

SinceTexts == { Str(T_Since), Str(T_Naive), Str(T_Bad) }
ApiKeys    == { MOCK_KEY, "wrong" }

NoRequest == [path |-> "", since |-> None, api_key |-> ""]

InitMock ==
    /\ \E sheet \in {MasterRows, UndatedRows} :
          master \in UNION { [1..n -> sheet] : n \in 0..MaxMaster }
    /\ request = NoRequest
    /\ response = HttpOk(<<>>)
    /\ InitPipeIdle /\ InitFnIdle /\ InitHashIdle

\* GET /projects
GetProjects ==
    \E k \in ApiKeys :
        /\ request' = [path |-> "/projects", since |-> None, api_key |-> k]
        /\ response' = list_projects(master, k)
        /\ UNCHANGED <<master, pipeVars, fnVars, hashVars>>

\* GET /projects/delta?since=...
GetDelta ==
    \E k \in ApiKeys, since \in SinceTexts :
        /\ request' = [path |-> "/projects/delta", since |-> since, api_key |-> k]
        /\ response' = delta_projects(master, since, k)
        /\ UNCHANGED <<master, pipeVars, fnVars, hashVars>>

NextMock == GetProjects \/ GetDelta

SpecMock == InitMock /\ [][NextMock]_vars

\* a dataset of records: each has a LastUpdated that is null or a timestamp
IsDataset ==
    \A i \in 1..Len(master) :
        /\ "LastUpdated" \in DOMAIN master[i]
        /\ to_datetime(master[i]["LastUpdated"]).ok

DeltaServed ==
    /\ request.path = "/projects/delta"
    /\ request.api_key = MOCK_KEY
    /\ to_datetime(request.since).ok
    /\ IsDataset

Newer(i) ==
    /\ "LastUpdated" \in DOMAIN master[i]
    /\ to_datetime(master[i]["LastUpdated"]).ok
    /\ ~to_datetime(master[i]["LastUpdated"]).nat
    /\ to_datetime(master[i]["LastUpdated"]).t > to_datetime(request.since).t

\* C4: for every dataset and every parsable `since`, the delta operation
\* returns exactly the records whose LastUpdated is strictly greater than
\* `since`, in dataset order, and never a record whose LastUpdated is null.
C4_DeltaStrictlyNewer ==
    DeltaServed =>
        /\ response.status = 200
        /\ response.body = Filter(master, [i \in 1..Len(master) |-> Newer(i)])

====
